---- MODULE Spec2Model ----
\* A model of the Whatsapp session facade of src/api/whatsapp.ts: each public
\* method issues page calls (evaluate, evaluateHandle, exposeFunction); the page
\* runs the closure it is given against the injected WAPI functions and settles
\* the call; the facade method continues from the settled call.
EXTENDS Integers, Sequences, FiniteSets, TLC

VARIABLES method, args, reqs, wapiLog, outcome,
          binding, unhandled, reported, bindingCalls, handlerLog

vars == <<method, args, reqs, wapiLog, outcome,
          binding, unhandled, reported, bindingCalls, handlerLog>>

\* ---------------------------------------------------------------- bounds
MaxMembers == 2
MaxChats == 3
MaxCallbacks == 2
MaxEvents == 2

\* ---------------------------------------------------------------- values
Ids == {"a", "b"}
Contents == {"hi", "yo"}
Errors == {"e1", "e2"}
Handlers == {"h1", "h2"}
Messages == {"m1", "m2"}
Images == {"img1", "img2"}

Undefined == [type |-> "undefined"]

\* model/id.ts, model/chat.ts, model/contact.ts, model/message.ts records
Id == [serialized : Ids]
Chat == [id : {"c1", "c2"}, isGroup : BOOLEAN]
Contact == [id : Ids, name : {"x", "y"}]
Message == [id : Ids]

RECURSIVE SeqsUpTo(_, _)
SeqsUpTo(S, n) ==
  IF n = 0 THEN {<<>>}
  ELSE LET shorter == SeqsUpTo(S, n - 1)
       IN shorter \cup {Append(s, x) : s \in {t \in shorter : Len(t) = n - 1}, x \in S}

\* what each function of the injected API may hand back (lines 8-27)
WAPI(fn, a) ==
  CASE fn = "sendMessage" -> {Undefined}
    [] fn = "ReplyMessage" -> {Undefined}
    [] fn = "sendSeen" -> {Undefined}
    [] fn = "getAllContacts" -> SeqsUpTo([id : {"a"}, name : {"x"}], 1)
    [] fn = "getAllChats" -> SeqsUpTo(Chat, MaxChats)
    [] fn = "getAllChatsWithNewMsg" -> SeqsUpTo(Chat, MaxChats)
    [] fn = "getMessageById" -> {[id |-> a[1]]}
    [] fn = "getGroupParticipantIDs" -> SeqsUpTo(Id, MaxMembers)
    [] fn = "getContact" -> {c \in Contact : c.id = a[1]}
    [] fn = "sendContact" -> {Undefined, [type |-> "sent"]}
    [] fn = "loadAllEarlierMessages" -> {Undefined}
    [] fn = "loadEarlierMessages" -> {Undefined}
    [] fn = "areAllMessagesLoaded" -> BOOLEAN
    [] fn = "getAllMessagesInChat" -> SeqsUpTo([id : {"a"}], 1)
    [] fn = "getGroupMetadata" -> {[id |-> a[1], owner |-> o] : o \in Ids}
    [] fn = "getProfilePicFromId" -> {Undefined}

\* ---------------------------------------------------------------- promises
Pending == [state |-> "pending", value |-> Undefined]
Resolved(v) == [state |-> "resolved", value |-> v]
Rejected(e) == [state |-> "rejected", value |-> e]
Returned(v) == [state |-> "returned", value |-> v]

\* failures the automation layer rejects a page call with
EvaluationFailed(e) == [name |-> "EvaluationFailed", cause |-> e]
ProtocolError == [name |-> "ProtocolError", cause |-> "none"]
BindingExists == [name |-> "BindingExists", cause |-> "none"]

\* a page call in flight
Request(fn, closure, arg) ==
  [fn |-> fn, closure |-> closure, arg |-> arg,
   state |-> "sent", value |-> Undefined, callbacks |-> 0]

Call(fn, a) == [fn |-> fn, args |-> a]

Param(argv, i, default) == IF Len(argv) >= i THEN argv[i] ELSE default

\* ---------------------------------------------------------------- page functions
\* The closure each method hands to the page: the WAPI calls it makes in order,
\* which call's value it returns (0: none), and how its promise is resolved
\* ("none": not callback style, "unit": resolve(), "arg": resolve(img)).
PageFn(calls, returns, callback) ==
  [calls |-> calls, returns |-> returns, callback |-> callback]

\* sendTextFn with the two WAPI calls in the other order
sendTextFnSendFirst(arg) ==
  PageFn(<<Call("sendMessage", <<arg.to, arg.content>>),
           Call("sendSeen", <<arg.to>>)>>, 0, "none")


sendTextFn(arg) ==
  PageFn(<<Call("sendSeen", <<arg.to>>),
           Call("sendMessage", <<arg.to, arg.content>>)>>, 0, "none")

replyMessageFn(arg) ==
  PageFn(<<Call("ReplyMessage", <<arg.messageId, arg.content>>)>>, 0, "none")

sendContactFn(arg) ==
  PageFn(<<Call("sendContact", <<arg.to, arg.contactId>>)>>, 1, "none")

getAllContactsFn(arg) == PageFn(<<Call("getAllContacts", <<>>)>>, 1, "none")

getAllChatsWithNewMsgFn(arg) ==
  PageFn(<<Call("getAllChatsWithNewMsg", <<>>)>>, 1, "none")

getAllChatsFn(arg) == PageFn(<<Call("getAllChats", <<>>)>>, 1, "none")

getGroupMembersIdFn(groupId) ==
  PageFn(<<Call("getGroupParticipantIDs", <<groupId>>)>>, 1, "none")

getGroupMetadataFn(groupId) ==
  PageFn(<<Call("getGroupMetadata", <<groupId>>)>>, 1, "none")

getProfilePicFromIdFn(id) ==
  PageFn(<<Call("getProfilePicFromId", <<id>>)>>, 0, "arg")

getContactFn(contactId) ==
  PageFn(<<Call("getContact", <<contactId>>)>>, 1, "none")

getMessageByIdFn(messageId) ==
  PageFn(<<Call("getMessageById", <<messageId>>)>>, 1, "none")

areAllMessagesLoadedFn(chatId) ==
  PageFn(<<Call("areAllMessagesLoaded", <<chatId>>)>>, 1, "none")

\* loadEarlierMessagesInChatFn resolving without waiting for the callback
loadEarlierMessagesInChatFnNoWait(chatId) ==
  PageFn(<<Call("loadEarlierMessages", <<chatId>>)>>, 0, "none")


loadEarlierMessagesInChatFn(chatId) ==
  PageFn(<<Call("loadEarlierMessages", <<chatId>>)>>, 0, "unit")

\* loadAllEarlierMessagesInChatFn resolving without waiting for the callback
loadAllEarlierMessagesInChatFnNoWait(chatId) ==
  PageFn(<<Call("loadAllEarlierMessages", <<chatId>>)>>, 0, "none")


loadAllEarlierMessagesInChatFn(chatId) ==
  PageFn(<<Call("loadAllEarlierMessages", <<chatId>>)>>, 0, "unit")

getAllMessagesInChatFn(chatId) ==
  PageFn(<<Call("getAllMessagesInChat", <<chatId>>)>>, 1, "none")

PageFunction(closure, arg) ==
  CASE closure = "sendText" -> sendTextFn(arg)
    [] closure = "replyMessage" -> replyMessageFn(arg)
    [] closure = "sendContact" -> sendContactFn(arg)
    [] closure = "getAllContacts" -> getAllContactsFn(arg)
    [] closure = "getAllChatsWithNewMsg" -> getAllChatsWithNewMsgFn(arg)
    [] closure = "getAllChats" -> getAllChatsFn(arg)
    [] closure = "getGroupMembersId" -> getGroupMembersIdFn(arg)
    [] closure = "getGroupMetadata" -> getGroupMetadataFn(arg)
    [] closure = "getProfilePicFromId" -> getProfilePicFromIdFn(arg)
    [] closure = "getContact" -> getContactFn(arg)
    [] closure = "getMessageById" -> getMessageByIdFn(arg)
    [] closure = "areAllMessagesLoaded" -> areAllMessagesLoadedFn(arg)
    [] closure = "loadEarlierMessagesInChat" -> loadEarlierMessagesInChatFn(arg)
    [] closure = "loadAllEarlierMessagesInChat" -> loadAllEarlierMessagesInChatFn(arg)
    [] closure = "getAllMessagesInChat" -> getAllMessagesInChatFn(arg)

\* ---------------------------------------------------------------- facade methods
\* The page calls a method issues when it is called.
onMessage(fn) == <<Request("exposeFunction", "OnMessage", fn)>>

sendText(to, content) ==
  <<Request("evaluate", "sendText", [to |-> to, content |-> content])>>

replyMessage(messageId, content) ==
  <<Request("evaluate", "replyMessage",
            [messageId |-> messageId, content |-> content])>>

sendContact(to, contactId) ==
  <<Request("evaluate", "sendContact", [to |-> to, contactId |-> contactId])>>

getAllContacts == <<Request("evaluate", "getAllContacts", Undefined)>>

\* getAllChats with the two branches exchanged
getAllChatsSwapped(argv) ==
  IF Param(argv, 1, FALSE)
  THEN <<Request("evaluate", "getAllChats", Undefined)>>
  ELSE <<Request("evaluate", "getAllChatsWithNewMsg", Undefined)>>


getAllChats(argv) ==
  IF Param(argv, 1, FALSE)
  THEN <<Request("evaluate", "getAllChatsWithNewMsg", Undefined)>>
  ELSE <<Request("evaluate", "getAllChats", Undefined)>>

getAllGroups(argv) ==
  IF Param(argv, 1, FALSE)
  THEN <<Request("evaluate", "getAllChatsWithNewMsg", Undefined)>>
  ELSE <<Request("evaluate", "getAllChats", Undefined)>>

getGroupMembersId(groupId) ==
  <<Request("evaluate", "getGroupMembersId", groupId)>>

getGroupMetadata(groupId) ==
  <<Request("evaluate", "getGroupMetadata", groupId)>>

getProfilePicFromId(id) ==
  <<Request("evaluateHandle", "getProfilePicFromId", id)>>

getContact(contactId) == <<Request("evaluate", "getContact", contactId)>>

getMessageById(messageId) ==
  <<Request("evaluate", "getMessageById", messageId)>>

areAllMessagesLoaded(chatId) ==
  <<Request("evaluate", "areAllMessagesLoaded", chatId)>>

loadEarlierMessagesInChat(chatId) ==
  <<Request("evaluateHandle", "loadEarlierMessagesInChat", chatId)>>

loadAllEarlierMessagesInChat(chatId) ==
  <<Request("evaluateHandle", "loadAllEarlierMessagesInChat", chatId)>>

getAllMessagesInChat(chatId) ==
  <<Request("evaluate", "getAllMessagesInChat", chatId)>>

\* ---------------------------------------------------------------- continuations
\* `return await this.page.evaluate(...)`: the method's promise follows the call's
\* ReturnAwait wrapping the failure in an error of its own
ReturnAwaitTranslated(r) ==
  IF r.state = "fulfilled" THEN Resolved(r.value)
  ELSE IF r.state = "rejected" THEN Rejected([name |-> "WhatsappError", cause |-> "none"])
  ELSE Pending


ReturnAwait(r) ==
  IF r.state = "fulfilled" THEN Resolved(r.value)
  ELSE IF r.state = "rejected" THEN Rejected(r.value)
  ELSE Pending

isGroup(chat) == chat.isGroup

\* chats.filter(chat => chat.isGroup)
\* filterGroups dropping every entry after the first group
filterGroupsFirst(chats) ==
  LET groups == SelectSeq(chats, isGroup)
  IN IF groups = <<>> THEN groups ELSE <<Head(groups)>>


filterGroups(chats) == SelectSeq(chats, isGroup)

getAllGroupsAwait(r) ==
  IF r.state = "fulfilled" THEN Resolved(filterGroups(r.value))
  ELSE IF r.state = "rejected" THEN Rejected(r.value)
  ELSE Pending

\* membersIds.map(memberId => this.getContact(memberId._serialized))
getGroupMembersActions(membersIds) ==
  [j \in 1..Len(membersIds) |-> getContact(membersIds[j].serialized)[1]]

\* Promise.all(actions) reacting to the settling of its i-th input (0: creation)
\* PromiseAll resolving with what has resolved so far, without joining on all
PromiseAllEager(out, actions, i) ==
  IF out.state # "pending" THEN out
  ELSE IF i > 0 /\ actions[i].state = "rejected" THEN Rejected(actions[i].value)
  ELSE IF i > 0 /\ actions[i].state = "resolved"
       THEN LET done == SelectSeq(actions, LAMBDA a : a.state = "resolved")
            IN Resolved([j \in 1..Len(done) |-> done[j].value])
  ELSE IF Len(actions) = 0 THEN Resolved(<<>>)
  ELSE out

\* PromiseAll isolating failures: a failed input leaves a placeholder
PromiseAllSettled(out, actions, i) ==
  IF out.state # "pending" THEN out
  ELSE IF \A j \in 1..Len(actions) : actions[j].state \in {"resolved", "rejected"}
       THEN Resolved([j \in 1..Len(actions) |->
                        IF actions[j].state = "resolved" THEN actions[j].value
                        ELSE [id |-> "none", name |-> "failed"]])
  ELSE out


PromiseAll(out, actions, i) ==
  IF out.state # "pending" THEN out
  ELSE IF i > 0 /\ actions[i].state = "rejected" THEN Rejected(actions[i].value)
  ELSE IF \A j \in 1..Len(actions) : actions[j].state = "resolved"
       THEN Resolved([j \in 1..Len(actions) |-> actions[j].value])
  ELSE out

getGroupMembersAwait(out, rs, i) ==
  IF rs[1].state = "rejected" THEN Rejected(rs[1].value)
  ELSE PromiseAll(out, [j \in 1..(Len(rs) - 1) |-> ReturnAwait(rs[j + 1])], i - 1)

\* the page calls issued when request i of the running method has settled
NextReqs(rs, i) ==
  IF method = "getGroupMembers" /\ i = 1 /\ rs[1].state = "fulfilled"
  THEN rs \o getGroupMembersActions(rs[1].value)
  ELSE rs

\* the method's promise after request i has settled
NextOutcome(rs, i) ==
  CASE method = "onMessage" -> outcome
    [] method = "getAllGroups" -> getAllGroupsAwait(rs[1])
    [] method = "getGroupMembers" -> getGroupMembersAwait(outcome, rs, i)
    [] OTHER -> ReturnAwait(rs[1])

\* a rejected exposeFunction promise has no handler attached
NextUnhandled(rs, i) ==
  IF method = "onMessage" /\ rs[i].state = "rejected"
  THEN unhandled \cup {rs[i].value}
  ELSE unhandled

Settle(i, st, val, cb) ==
  LET rs == [reqs EXCEPT ![i].state = st, ![i].value = val, ![i].callbacks = cb]
  IN /\ reqs' = NextReqs(rs, i)
     /\ outcome' = NextOutcome(NextReqs(rs, i), i)
     /\ unhandled' = NextUnhandled(rs, i)

\* (message: Message) => fn(message)
\* OnMessageCallback invoking the handler twice
OnMessageCallbackTwice(fn, message) ==
  <<[fn |-> fn, message |-> message], [fn |-> fn, message |-> message]>>


OnMessageCallback(fn, message) == <<[fn |-> fn, message |-> message]>>

\* evaluateHandle hands back a handle to the value, evaluate the value itself
Marshal(fn, v) == IF fn = "evaluateHandle" THEN [handle |-> v] ELSE v

\* ---------------------------------------------------------------- state machine
Init ==
  /\ method = "none"
  /\ args = <<>>
  /\ reqs = <<>>
  /\ wapiLog = <<>>
  /\ outcome = [state |-> "none", value |-> Undefined]
  /\ binding = "none"
  /\ unhandled = {}
  /\ reported = <<>>
  /\ bindingCalls = <<>>
  /\ handlerLog = <<>>

Settled(r) == r.state \in {"fulfilled", "rejected"}

\* the client calls one method after the other
Quiescent ==
  /\ outcome.state # "pending"
  /\ \A i \in 1..Len(reqs) : Settled(reqs[i])

StartCall(m, a, rs, out) ==
  /\ Quiescent
  /\ method' = m
  /\ args' = a
  /\ reqs' = rs
  /\ wapiLog' = <<>>
  /\ outcome' = out
  /\ UNCHANGED <<binding, unhandled, reported, bindingCalls, handlerLog>>

CallOnMessage ==
  \E fn \in Handlers : StartCall("onMessage", <<fn>>, onMessage(fn), Returned(Undefined))

CallSendText ==
  \E to \in Ids, content \in Contents :
    StartCall("sendText", <<to, content>>, sendText(to, content), Pending)

CallReplyMessage ==
  \E messageId \in Ids, content \in Contents :
    StartCall("replyMessage", <<messageId, content>>,
              replyMessage(messageId, content), Pending)

CallSendContact ==
  \E to \in Ids, contactId \in Ids :
    StartCall("sendContact", <<to, contactId>>, sendContact(to, contactId), Pending)

CallGetAllContacts == StartCall("getAllContacts", <<>>, getAllContacts, Pending)

CallGetAllChats ==
  \E argv \in {<<>>, <<TRUE>>, <<FALSE>>} :
    StartCall("getAllChats", argv, getAllChats(argv), Pending)

CallGetAllGroups ==
  \E argv \in {<<>>, <<TRUE>>, <<FALSE>>} :
    StartCall("getAllGroups", argv, getAllGroups(argv), Pending)

CallGetGroupMembersId ==
  \E groupId \in Ids :
    StartCall("getGroupMembersId", <<groupId>>, getGroupMembersId(groupId), Pending)

CallGetGroupMembers ==
  \E groupId \in Ids :
    StartCall("getGroupMembers", <<groupId>>, getGroupMembersId(groupId), Pending)

CallGetGroupMetadata ==
  \E groupId \in Ids :
    StartCall("getGroupMetadata", <<groupId>>, getGroupMetadata(groupId), Pending)

CallGetProfilePicFromId ==
  \E id \in Ids :
    StartCall("getProfilePicFromId", <<id>>, getProfilePicFromId(id), Pending)

CallGetContact ==
  \E contactId \in Ids :
    StartCall("getContact", <<contactId>>, getContact(contactId), Pending)

CallGetMessageById ==
  \E messageId \in Ids :
    StartCall("getMessageById", <<messageId>>, getMessageById(messageId), Pending)

CallAreAllMessagesLoaded ==
  \E chatId \in Ids :
    StartCall("areAllMessagesLoaded", <<chatId>>, areAllMessagesLoaded(chatId), Pending)

CallLoadEarlierMessagesInChat ==
  \E chatId \in Ids :
    StartCall("loadEarlierMessagesInChat", <<chatId>>,
              loadEarlierMessagesInChat(chatId), Pending)

CallLoadAllEarlierMessagesInChat ==
  \E chatId \in Ids :
    StartCall("loadAllEarlierMessagesInChat", <<chatId>>,
              loadAllEarlierMessagesInChat(chatId), Pending)

CallGetAllMessagesInChat ==
  \E chatId \in Ids :
    StartCall("getAllMessagesInChat", <<chatId>>, getAllMessagesInChat(chatId), Pending)

\* ---------------------------------------------------------------- the page
IsEval(r) == r.fn \in {"evaluate", "evaluateHandle"}

Entry(i, c, threw, ret) ==
  [req |-> i, fn |-> c.fn, args |-> c.args, threw |-> threw, ret |-> ret]

\* the calls before the k-th have returned
Ran(i, calls, k) ==
  [j \in 1..(k - 1) |->
     Entry(i, calls[j], FALSE, CHOOSE v \in WAPI(calls[j].fn, calls[j].args) : TRUE)]

\* the k-th WAPI call of the closure throws e: the page call is rejected
PageThrow ==
  \E i \in 1..Len(reqs) :
    LET r == reqs[i]
        pf == PageFunction(r.closure, r.arg)
    IN /\ IsEval(r) /\ r.state = "sent"
       /\ \E k \in 1..Len(pf.calls), e \in Errors :
            /\ wapiLog' = wapiLog \o Ran(i, pf.calls, k)
                            \o <<Entry(i, pf.calls[k], TRUE, e)>>
            /\ Settle(i, "rejected", EvaluationFailed(e), 0)
       /\ UNCHANGED <<method, args, binding, reported, bindingCalls, handlerLog>>

\* every WAPI call of the closure returns: the page call is fulfilled
PageReturn ==
  \E i \in 1..Len(reqs) :
    LET r == reqs[i]
        pf == PageFunction(r.closure, r.arg)
        n == Len(pf.calls)
    IN /\ IsEval(r) /\ r.state = "sent" /\ pf.callback = "none"
       /\ \E v \in WAPI(pf.calls[n].fn, pf.calls[n].args) :
            LET log == Ran(i, pf.calls, n) \o <<Entry(i, pf.calls[n], FALSE, v)>>
            IN /\ wapiLog' = wapiLog \o log
               /\ Settle(i, "fulfilled",
                         Marshal(r.fn, IF pf.returns = 0 THEN Undefined
                                       ELSE log[pf.returns].ret), 0)
       /\ UNCHANGED <<method, args, binding, reported, bindingCalls, handlerLog>>

\* the callback-style WAPI call returns; its promise waits for the callback
PageWait ==
  \E i \in 1..Len(reqs) :
    LET r == reqs[i]
        pf == PageFunction(r.closure, r.arg)
    IN /\ IsEval(r) /\ r.state = "sent" /\ pf.callback # "none"
       /\ wapiLog' = wapiLog \o Ran(i, pf.calls, Len(pf.calls) + 1)
       /\ reqs' = [reqs EXCEPT ![i].state = "waiting"]
       /\ UNCHANGED <<method, args, outcome, binding, unhandled,
                      reported, bindingCalls, handlerLog>>

\* what resolve is called with when the callback is invoked with img
ResolveWith(pf, img) == IF pf.callback = "arg" THEN [data |-> img] ELSE Undefined

\* the WAPI function invokes the callback it was given
PageCallback ==
  \E i \in 1..Len(reqs) :
    LET r == reqs[i]
        pf == PageFunction(r.closure, r.arg)
    IN /\ IsEval(r) /\ r.state \in {"waiting", "fulfilled"} /\ pf.callback # "none"
       /\ r.callbacks < MaxCallbacks
       /\ \E img \in Images :
            IF r.state = "waiting"
            THEN Settle(i, "fulfilled", Marshal(r.fn, ResolveWith(pf, img)),
                        r.callbacks + 1)
            ELSE Settle(i, r.state, r.value, r.callbacks + 1)
       /\ UNCHANGED <<method, args, wapiLog, binding, reported, bindingCalls, handlerLog>>

\* the automation layer fails a call that has not completed
ProtocolFailure ==
  \E i \in 1..Len(reqs) :
    /\ reqs[i].state \in {"sent", "waiting"}
    /\ Settle(i, "rejected", ProtocolError, reqs[i].callbacks)
    /\ UNCHANGED <<method, args, wapiLog, binding, reported, bindingCalls, handlerLog>>

\* the automation layer installs the exposed function, unless the name is taken
PageExpose ==
  \E i \in 1..Len(reqs) :
    /\ reqs[i].fn = "exposeFunction" /\ reqs[i].state = "sent"
    /\ IF binding = "none"
       THEN /\ binding' = reqs[i].arg
            /\ Settle(i, "fulfilled", Undefined, 0)
       ELSE /\ binding' = binding
            /\ Settle(i, "rejected", BindingExists, 0)
    /\ UNCHANGED <<method, args, wapiLog, reported, bindingCalls, handlerLog>>

\* the page reports an inbound message by calling the exposed function
PageReport ==
  \E message \in Messages :
    /\ binding # "none"
    /\ Len(reported) < MaxEvents
    /\ reported' = Append(reported, message)
    /\ bindingCalls' = Append(bindingCalls, message)
    /\ UNCHANGED <<method, args, reqs, wapiLog, outcome, binding, unhandled, handlerLog>>

\* the automation layer runs the exposed callback for the oldest call
Deliver ==
  /\ bindingCalls # <<>>
  /\ handlerLog' = handlerLog \o OnMessageCallback(binding, Head(bindingCalls))
  /\ bindingCalls' = Tail(bindingCalls)
  /\ UNCHANGED <<method, args, reqs, wapiLog, outcome, binding, unhandled, reported>>

Next ==
  \/ CallOnMessage
  \/ CallSendText
  \/ CallReplyMessage
  \/ CallSendContact
  \/ CallGetAllContacts
  \/ CallGetAllChats
  \/ CallGetAllGroups
  \/ CallGetGroupMembersId
  \/ CallGetGroupMembers
  \/ CallGetGroupMetadata
  \/ CallGetProfilePicFromId
  \/ CallGetContact
  \/ CallGetMessageById
  \/ CallAreAllMessagesLoaded
  \/ CallLoadEarlierMessagesInChat
  \/ CallLoadAllEarlierMessagesInChat
  \/ CallGetAllMessagesInChat
  \/ PageThrow
  \/ PageReturn
  \/ PageWait
  \/ PageCallback
  \/ ProtocolFailure
  \/ PageExpose

\* The method calls and the page calls they issue. Inbound message events write
\* only reported, bindingCalls and handlerLog, which no method reads; they are
\* followed in SpecMsg.
Spec == Init /\ [][Next]_vars

\* onMessage and the inbound message events of the page
NextMsg ==
  \/ CallOnMessage
  \/ PageExpose
  \/ ProtocolFailure
  \/ PageReport
  \/ Deliver

SpecMsg == Init /\ [][NextMsg]_vars

\* ---------------------------------------------------------------- properties
IsPrefix(s, t) == Len(s) <= Len(t) /\ \A j \in 1..Len(s) : s[j] = t[j]

\* the WAPI invocations made for the running method, in order
Invoked == [j \in 1..Len(wapiLog) |-> Call(wapiLog[j].fn, wapiLog[j].args)]

RejectedReqs == {i \in 1..Len(reqs) : reqs[i].state = "rejected"}

\* C1: a sendText(to, content) call invokes sendSeen(to) and then
\* sendMessage(to, content), in that order and never more than once each, with
\* the arguments it was given; a call that completes has invoked each exactly once.
C1_SendTextSeenBeforeSend ==
  method = "sendText" =>
    LET expected == <<Call("sendSeen", <<args[1]>>),
                      Call("sendMessage", <<args[1], args[2]>>)>>
    IN /\ Len(reqs) = 1
       /\ reqs[1].arg = [to |-> args[1], content |-> args[2]]
       /\ IsPrefix(Invoked, expected)
       /\ outcome.state = "resolved" => Invoked = expected

C1_Witness ==
  /\ method = "sendText"
  /\ outcome.state = "resolved"
  /\ Len(wapiLog) = 2
  /\ args = <<"b", "yo">>

\* C2: with remote participant list [id_1..id_n], getGroupMembers issues exactly
\* n contact lookups, the i-th for id_i._serialized, and what it returns is the
\* list of the n lookup results in that order, whatever order they complete in.
C2_GroupMembersInOrder ==
  (method = "getGroupMembers" /\ reqs[1].state = "fulfilled") =>
    LET membersIds == reqs[1].value
        n == Len(membersIds)
    IN /\ wapiLog[1].fn = "getGroupParticipantIDs"
       /\ wapiLog[1].args = args
       /\ wapiLog[1].ret = membersIds
       /\ Len(reqs) = n + 1
       /\ \A j \in 1..n :
            /\ reqs[j + 1].fn = "evaluate"
            /\ PageFunction(reqs[j + 1].closure, reqs[j + 1].arg).calls
                 = <<Call("getContact", <<membersIds[j].serialized>>)>>
       /\ outcome.state = "resolved" =>
            /\ Len(outcome.value) = n
            /\ \A j \in 1..n :
                 /\ reqs[j + 1].state = "fulfilled"
                 /\ outcome.value[j] = reqs[j + 1].value
                 /\ \E k \in 2..Len(wapiLog) :
                      /\ wapiLog[k].req = j + 1
                      /\ wapiLog[k].ret = outcome.value[j]
                      /\ wapiLog[k].args = <<membersIds[j].serialized>>

\* the lookup for the second member completed before the one for the first
C2_Witness ==
  /\ method = "getGroupMembers"
  /\ outcome.state = "resolved"
  /\ Len(outcome.value) = 2
  /\ outcome.value[1] # outcome.value[2]
  /\ Len(wapiLog) = 3
  /\ wapiLog[2].req = 3
  /\ wapiLog[3].req = 2

\* C3: once one of the contact lookups of getGroupMembers has failed, the call
\* has failed with the failure of a failed lookup; it is never resolved.
C3_GroupMembersFailsWhole ==
  (method = "getGroupMembers" /\ \E i \in RejectedReqs : i > 1) =>
    /\ outcome.state = "rejected"
    /\ \E i \in RejectedReqs : i > 1 /\ outcome.value = reqs[i].value

\* one lookup failed, the other succeeded before it, and both have completed
C3_Witness ==
  /\ method = "getGroupMembers"
  /\ Len(reqs) = 3
  /\ reqs[2].state = "fulfilled"
  /\ reqs[3].state = "rejected"
  /\ Len(wapiLog) = 3
  /\ wapiLog[2].req = 2
  /\ outcome.state = "rejected"

KeyedReads == {"getContact", "getMessageById", "getGroupMetadata", "getGroupMembersId"}

\* C4: a keyed read whose page evaluation is rejected with e is rejected with
\* that same e.
C4_KeyedReadRejectsWithSame ==
  (method \in KeyedReads /\ reqs[1].state = "rejected") =>
    /\ Len(reqs) = 1
    /\ outcome = Rejected(reqs[1].value)

C4_Witness ==
  /\ method = "getGroupMetadata"
  /\ reqs[1].state = "rejected"
  /\ reqs[1].value = EvaluationFailed("e2")
  /\ outcome.state = "rejected"

\* the positions of the group entries of a chat collection
GroupPositions(chats) == {i \in 1..Len(chats) : chats[i].isGroup}

\* r holds exactly the group entries of chats, in their order
IsGroupSubsequence(r, chats) ==
  /\ Len(r) = Cardinality(GroupPositions(chats))
  /\ \A i \in GroupPositions(chats) :
       r[Cardinality({j \in GroupPositions(chats) : j <= i})] = chats[i]

\* C5: getAllGroups returns exactly the group entries, in their order, of the
\* collection of the chats-with-new-message query when its flag is true and of
\* the all-chats query when it is false.
C5_AllGroupsFilter ==
  (method = "getAllGroups" /\ outcome.state = "resolved") =>
    /\ Len(wapiLog) = 1
    /\ wapiLog[1].fn = (IF args = <<TRUE>> THEN "getAllChatsWithNewMsg"
                        ELSE "getAllChats")
    /\ ~wapiLog[1].threw
    /\ IsGroupSubsequence(outcome.value, wapiLog[1].ret)

\* two different groups around a chat that is not a group
C5_Witness ==
  /\ method = "getAllGroups"
  /\ outcome.state = "resolved"
  /\ Len(outcome.value) = 2
  /\ outcome.value[1] # outcome.value[2]
  /\ Len(wapiLog[1].ret) = 3
  /\ ~wapiLog[1].ret[2].isGroup

\* C6: getAllChats(true) invokes the chats-with-new-message query only,
\* getAllChats(false) and getAllChats() the all-chats query only; the call makes
\* one page call, the query is invoked at most once, and a call that completes
\* has invoked it exactly once and returns its result unchanged.
C6_AllChatsQuery ==
  method = "getAllChats" =>
    LET query == IF args = <<TRUE>> THEN "getAllChatsWithNewMsg" ELSE "getAllChats"
    IN /\ Len(reqs) = 1
       /\ IsPrefix(Invoked, <<Call(query, <<>>)>>)
       /\ outcome.state = "resolved" =>
            /\ Len(wapiLog) = 1
            /\ outcome.value = wapiLog[1].ret

C6_Witness ==
  /\ method = "getAllChats"
  /\ args = <<TRUE>>
  /\ outcome.state = "resolved"
  /\ Len(outcome.value) = 2

\* C7: loadEarlierMessagesInChat(chatId) calls the remote loader once, with
\* chatId; the call is resolved if and only if the loader has invoked its
\* callback, and a further invocation of the callback changes nothing.
C7_LoadEarlierResolvesOnCallback ==
  method = "loadEarlierMessagesInChat" =>
    /\ Len(reqs) = 1
    /\ IsPrefix(Invoked, <<Call("loadEarlierMessages", <<args[1]>>)>>)
    /\ outcome.state = "resolved" => Len(wapiLog) = 1
    /\ outcome.state = "resolved" <=> reqs[1].callbacks >= 1
    /\ outcome.state = "resolved" => outcome.value = [handle |-> Undefined]

C7_Witness ==
  /\ method = "loadEarlierMessagesInChat"
  /\ args = <<"b">>
  /\ reqs[1].callbacks = 1
  /\ outcome.state = "resolved"

\* C8: whenever a page call of the running method has failed, the method's
\* result has failed with the failure of one of its page calls.
C8_EveryMethodPropagates ==
  RejectedReqs # {} =>
    /\ outcome.state = "rejected"
    /\ \E i \in RejectedReqs : outcome.value = reqs[i].value

\* C9: with a handler registered, the handler has been invoked once for each
\* reported message that has reached the exposed function, in the order of the
\* reports, and with nothing else.
C9_HandlerOncePerEvent ==
  /\ Len(handlerLog) + Len(bindingCalls) = Len(reported)
  /\ \A k \in 1..Len(handlerLog) :
       /\ handlerLog[k].fn = binding
       /\ handlerLog[k].message = reported[k]
  /\ \A k \in 1..Len(bindingCalls) :
       bindingCalls[k] = reported[Len(handlerLog) + k]

C9_Witness ==
  /\ binding = "h2"
  /\ Len(handlerLog) = 2
  /\ bindingCalls = <<>>
  /\ reported = <<"m2", "m1">>

CallbackMethods ==
  {"loadEarlierMessagesInChat", "loadAllEarlierMessagesInChat", "getProfilePicFromId"}

\* C10 as stated: while the remote operation has not invoked its callback, the
\* call is pending.
C10_PendingUntilCallback ==
  (method \in CallbackMethods /\ reqs[1].callbacks = 0) => outcome.state = "pending"

\* C10: while the remote operation has not invoked its callback the call is not
\* resolved; it is pending for as long as its page call is, and is rejected
\* only with the failure of that page call.
C10_NoResolveWithoutCallback ==
  (method \in CallbackMethods /\ reqs[1].callbacks = 0) =>
    /\ Len(reqs) = 1
    /\ outcome.state # "resolved"
    /\ ~Settled(reqs[1]) => outcome.state = "pending"
    /\ outcome.state = "rejected" =>
         /\ reqs[1].state = "rejected"
         /\ outcome.value = reqs[1].value

\* the loader has been called and has returned without invoking its callback
C10_Witness ==
  /\ method = "loadAllEarlierMessagesInChat"
  /\ reqs[1].state = "waiting"
  /\ reqs[1].callbacks = 0
  /\ Len(wapiLog) = 1
  /\ outcome.state = "pending"

====
